---- MODULE Spec2Model ----
(***************************************************************************)
(* A model of vc_diligence/extract.py: numeric normalisation               *)
(* (_parse_number), document loading (load_data, parse_pdf), the           *)
(* validation of parse_pdf_with_ai, the metrics of analyze_data, the       *)
(* warnings of check_data_quality, and the single-file and batch runs of   *)
(* main.                                                                   *)
(*                                                                         *)
(* Text is a sequence of one-character strings.  A cell value is a record  *)
(* [k, n, d, s]: k = "num" is the number n/d in lowest terms (a Python     *)
(* float or int, kept exact), k = "nan" is float NaN, k = "none" is        *)
(* Python None, k = "str" is the text s, and k = "int" is an int too large  *)
(* for a float.                                                            *)
(***************************************************************************)
EXTENDS Integers, Sequences, FiniteSets, TLC

\* ------------------------------------------------------------------ bounds

\* Longest text drawn for _parse_number, besides the spec's examples.
MaxStrLen == 3

\* ------------------------------------------------------------------ values

Abs(x) == IF x < 0 THEN -x ELSE x

Min(a, b) == IF a <= b THEN a ELSE b

Max(a, b) == IF a >= b THEN a ELSE b

RECURSIVE GCD(_, _)
GCD(a, b) == IF b = 0 THEN a ELSE GCD(b, a % b)

RECURSIVE Pow10(_)
Pow10(k) == IF k = 0 THEN 1 ELSE 10 * Pow10(k - 1)

\* The number n/d (d > 0), in lowest terms, as a cell value.
Num(n, d) ==
    LET g == GCD(Abs(n), d)
    IN  [k |-> "num", n |-> n \div g, d |-> d \div g, s |-> <<>>]

NaN == [k |-> "nan", n |-> 0, d |-> 1, s |-> <<>>]

None == [k |-> "none", n |-> 0, d |-> 1, s |-> <<>>]

Str(t) == [k |-> "str", n |-> 0, d |-> 1, s |-> t]

\* A Python int beyond the range of float (2^1024 and above): int has no
\* width, float has.
HugeInt == [k |-> "int", n |-> 1, d |-> 0, s |-> <<>>]

IsNum(v) == v.k = "num"

\* pd.notna / pd.isna: both None and NaN count as missing.
NotNa(v) == v.k \notin {"nan", "none"}

\* Exact comparison and arithmetic of two numbers.
Lt(a, b) == a.n * b.d < b.n * a.d

Add(a, b) == Num(a.n * b.d + b.n * a.d, a.d * b.d)

\* a / b for b # 0.
Div(a, b) ==
    IF b.n > 0 THEN Num(a.n * b.d, a.d * b.n) ELSE Num(-(a.n * b.d), a.d * (-b.n))

Zero == Num(0, 1)

\* ---------------------------------------------------------- _parse_number

Digits == {"0", "1", "2", "3", "4", "5", "6", "7", "8", "9"}

DigitVal(c) ==
    CASE c = "0" -> 0 [] c = "1" -> 1 [] c = "2" -> 2 [] c = "3" -> 3
      [] c = "4" -> 4 [] c = "5" -> 5 [] c = "6" -> 6 [] c = "7" -> 7
      [] c = "8" -> 8 [] c = "9" -> 9

Whitespace == {" ", "\n"}

\* str.replace(c, '') for every c of chars.
RemoveChars(t, chars) == SelectSeq(t, LAMBDA c : c \notin chars)

RECURSIVE LStrip(_)
LStrip(t) ==
    IF t # <<>> /\ Head(t) \in Whitespace THEN LStrip(Tail(t)) ELSE t

RECURSIVE RStrip(_)
RStrip(t) ==
    IF t # <<>> /\ t[Len(t)] \in Whitespace
    THEN RStrip(SubSeq(t, 1, Len(t) - 1))
    ELSE t

\* str.strip()
Strip(t) == RStrip(LStrip(t))

\* The integer written by a sequence of digits (0 for none).
RECURSIVE DigitsVal(_)
DigitsVal(t) ==
    IF t = <<>> THEN 0
    ELSE 10 * DigitsVal(SubSeq(t, 1, Len(t) - 1)) + DigitVal(t[Len(t)])

\* Python's float(str) on the texts of this model's alphabet: surrounding
\* whitespace is ignored, then an optional sign, then digits with at most one
\* decimal point and at least one digit.  (The alphabet has no exponent
\* letter, no underscore and no letter of "inf" or "nan" but "a" and "n".)
FloatBody(t) ==
    LET u == Strip(t)
    IN  IF u # <<>> /\ Head(u) \in {"-", "+"} THEN Tail(u) ELSE u

FloatNegative(t) ==
    LET u == Strip(t) IN u # <<>> /\ Head(u) = "-"

IsFloatLiteral(t) ==
    LET b == FloatBody(t)
        points == {i \in 1..Len(b) : b[i] = "."}
    IN  /\ \A i \in 1..Len(b) : b[i] \in Digits \cup {"."}
        /\ Cardinality(points) <= 1
        /\ \E i \in 1..Len(b) : b[i] \in Digits

\* float(t) for a text IsFloatLiteral accepts.
FloatValue(t) ==
    LET b == FloatBody(t)
        points == {i \in 1..Len(b) : b[i] = "."}
        frac == IF points = {} THEN 0 ELSE Len(b) - (CHOOSE i \in points : TRUE)
        m == DigitsVal(RemoveChars(b, {"."}))
    IN  Num(IF FloatNegative(t) THEN -m ELSE m, Pow10(frac))

\* str(value) for the values _parse_number's second branch can see.
NoneText == <<"N", "o", "n", "e">>

PyStr(v) == IF v.k = "str" THEN v.s ELSE NoneText

StrippedGlyphs == {",", "€", "$", "%"}

\* The exception _parse_number raises on value, "ok" when it returns:
\* float(value) of an int beyond the float range is an OverflowError, which
\* the function does not catch.
ParseNumberStatus(value) ==
    IF value.k = "int" THEN "OverflowError" ELSE "ok"

\* _parse_number(value), for a value it returns on.
ParseNumber(value) ==
    IF value.k \in {"num", "nan"} THEN value
    ELSE LET t == Strip(RemoveChars(PyStr(value), StrippedGlyphs))
         IN  IF IsFloatLiteral(t) THEN FloatValue(t) ELSE None

\* -------------------------------------------------------------- DataFrame

\* The four column keys the analysis reads.
NAME == <<"n", "a", "m", "e">>

CASH == <<"c", "a", "s", "h">>

BURN == <<"m", "o", "n", "t", "h", "l", "y", "_", "b", "u", "r", "n">>

GROWTH ==
    <<"r", "e", "v", "e", "n", "u", "e", "_", "g", "r", "o", "w", "t", "h">>

Required == {NAME, CASH, BURN, GROWTH}

NumericColumns == {CASH, BURN, GROWTH}

\* A DataFrame is [columns |-> set of keys, rows |-> sequence of functions
\* from the keys to cell values].  df[c] as the sequence of its values:
Col(df, c) == [i \in 1..Len(df.rows) |-> df.rows[i][c]]

HasText(vals) == \E i \in 1..Len(vals) : vals[i].k = "str"

HasNa(vals) == \E i \in 1..Len(vals) : ~NotNa(vals[i])

\* pandas keeps a column as float64 when every value is a number or NaN, and
\* as object otherwise (texts, None, or no row at all as read_csv returns it).
Dtype(vals) ==
    IF Len(vals) > 0 /\ \A i \in 1..Len(vals) : vals[i].k \in {"num", "nan"}
    THEN "float64"
    ELSE "object"

\* The numbers of a sequence of values, in order (what skipna keeps).
Numbers(vals) == SelectSeq(vals, IsNum)

RECURSIVE Sum(_)
Sum(nums) == IF nums = <<>> THEN Zero ELSE Add(Head(nums), Sum(Tail(nums)))

\* Series.mean(): the mean of the values that are numbers, NaN when none.
Mean(vals) ==
    LET nums == Numbers(vals)
    IN  IF nums = <<>> THEN NaN ELSE Div(Sum(nums), Num(Len(nums), 1))

\* ------------------------------------------------------------ analyze_data

TopN == 3

Indices(df) == [i \in 1..Len(df.rows) |-> i]

\* df['monthly_burn'] > 0 for row i (False for NaN and None).
PositiveBurn(df, i) == IsNum(df.rows[i][BURN]) /\ df.rows[i][BURN].n > 0

\* valid_burn = df[df['monthly_burn'] > 0], as the row indices it keeps.
ValidBurn(df) == SelectSeq(Indices(df), LAMBDA i : PositiveBurn(df, i))

\* valid_burn['cash'] / valid_burn['monthly_burn']: NaN where cash is missing.
Runways(df) ==
    LET valid == ValidBurn(df)
    IN  [j \in 1..Len(valid) |->
            IF IsNum(df.rows[valid[j]][CASH])
            THEN Div(df.rows[valid[j]][CASH], df.rows[valid[j]][BURN])
            ELSE NaN]

\* A variant: the mean over every row with a nonzero burn, as the earlier
\* src/extract.py divides without filtering.
AvgRunwayOverAllRows(df) ==
    Mean([i \in 1..Len(df.rows) |->
            IF IsNum(df.rows[i][CASH]) /\ IsNum(df.rows[i][BURN])
               /\ df.rows[i][BURN].n # 0
            THEN Div(df.rows[i][CASH], df.rows[i][BURN])
            ELSE NaN])

AvgRunway(df) == IF Len(ValidBurn(df)) > 0 THEN Mean(Runways(df)) ELSE None

RunwayBasedOn(df) ==
    IF Len(ValidBurn(df)) < Len(df.rows)
    THEN Num(Len(ValidBurn(df)), 1)
    ELSE None

RECURSIVE Concat(_)
Concat(texts) ==
    IF texts = <<>> THEN <<>> ELSE Head(texts).s \o Concat(Tail(texts))

\* df['cash'].sum(): NaN and None are skipped; a column of texts only is
\* concatenated.
TotalCash(df) ==
    IF HasText(Col(df, CASH)) THEN Str(Concat(Col(df, CASH)))
    ELSE Sum(Numbers(Col(df, CASH)))

\* A variant: among equals the latest row (keep='last').
NextLargestLastOfEquals(df, left) ==
    LET nums == {i \in left : IsNum(df.rows[i][GROWTH])}
    IN  IF nums = {}
        THEN CHOOSE i \in left : \A j \in left : i <= j
        ELSE CHOOSE i \in nums :
                \A j \in nums :
                    /\ ~Lt(df.rows[i][GROWTH], df.rows[j][GROWTH])
                    /\ (df.rows[i][GROWTH] = df.rows[j][GROWTH] => i >= j)

\* The row index nlargest takes next: the largest remaining number, the
\* earliest row among equals; a row without a number only when none is left.
NextLargest(df, left) ==
    LET nums == {i \in left : IsNum(df.rows[i][GROWTH])}
    IN  IF nums = {}
        THEN CHOOSE i \in left : \A j \in left : i <= j
        ELSE CHOOSE i \in nums :
                \A j \in nums :
                    /\ ~Lt(df.rows[i][GROWTH], df.rows[j][GROWTH])
                    /\ (df.rows[i][GROWTH] = df.rows[j][GROWTH] => i <= j)

\* df.nlargest(n, 'revenue_growth'), as row indices.
RECURSIVE NLargest(_, _, _)
NLargest(df, n, left) ==
    IF n = 0 \/ left = {} THEN <<>>
    ELSE LET i == NextLargest(df, left)
         IN  <<i>> \o NLargest(df, n - 1, left \ {i})

\* top_3[['name', 'revenue_growth']].to_dict('records')
TopGrowers(df) ==
    IF GROWTH \notin df.columns THEN <<>>
    ELSE LET top == NLargest(df, TopN, 1..Len(df.rows))
         IN  [j \in 1..Len(top) |->
                [name |-> df.rows[top[j]][NAME],
                 revenue_growth |-> df.rows[top[j]][GROWTH]]]

\* The exception analyze_data raises on df, "ok" when it returns.
AnalyzeStatus(df) ==
    IF BURN \notin df.columns THEN "KeyError"
    ELSE IF HasText(Col(df, BURN)) THEN "TypeError"
    ELSE IF CASH \notin df.columns THEN "KeyError"
    ELSE IF \E i \in 1..Len(df.rows) :
                PositiveBurn(df, i) /\ df.rows[i][CASH].k = "str"
         THEN "TypeError"
    ELSE IF HasText(Col(df, CASH)) /\ HasNa(Col(df, CASH)) THEN "TypeError"
    ELSE IF GROWTH \in df.columns /\ Dtype(Col(df, GROWTH)) = "object"
         THEN "TypeError"
    ELSE IF GROWTH \in df.columns /\ NAME \notin df.columns THEN "KeyError"
    ELSE "ok"

NoResults ==
    [startup_count |-> 0, avg_burn_rate |-> None, avg_runway |-> None,
     runway_based_on |-> None, total_cash |-> None, top_growers |-> <<>>]

\* analyze_data(df), for a df it returns on.
AnalyzeData(df) ==
    [startup_count |-> Len(df.rows),
     avg_burn_rate |-> Mean(Col(df, BURN)),
     avg_runway |-> AvgRunway(df),
     runway_based_on |-> RunwayBasedOn(df),
     total_cash |-> TotalCash(df),
     top_growers |-> TopGrowers(df)]

\* ------------------------------------------------------ check_data_quality

MaxWarnings == 4

LongRunwayMonths == 120

One == Num(1, 1)

NegativeGrowthLimit == Num(-1, 2)

Critical == "CRITICAL: Less than 1 month runway"

ZeroBurn == "Zero or negative burn rate - incomplete data?"

LongRunway == "Unusually long runway - verify burn rate"

NegativeGrowth == "Significant negative growth - verify data"

RunwayMessages == {Critical, ZeroBurn, LongRunway}

\* The exception the loop body raises on a row, "ok" when it completes:
\* None or a text cannot be compared with or divided by a number.
RowStatus(row) ==
    IF row[BURN].k \in {"none", "str"} THEN "TypeError"
    ELSE IF IsNum(row[BURN]) /\ row[BURN].n > 0 /\ row[CASH].k \in {"none", "str"}
         THEN "TypeError"
    ELSE IF row[GROWTH].k = "str" THEN "TypeError"
    ELSE "ok"

\* burn > 0 and cash / burn < 1 (False when cash is NaN).
IsCritical(row) ==
    /\ IsNum(row[BURN]) /\ row[BURN].n > 0
    /\ IsNum(row[CASH]) /\ Lt(Div(row[CASH], row[BURN]), One)

\* burn <= 0 (False when burn is NaN).
IsZeroBurn(row) == IsNum(row[BURN]) /\ row[BURN].n <= 0

\* A variant: cash / burn >= 120.
IsLongRunwayFrom120(row) ==
    /\ IsNum(row[BURN]) /\ row[BURN].n > 0
    /\ IsNum(row[CASH])
    /\ ~Lt(Div(row[CASH], row[BURN]), Num(LongRunwayMonths, 1))

\* burn > 0 and cash / burn > 120 (False when cash is NaN).
IsLongRunway(row) ==
    /\ IsNum(row[BURN]) /\ row[BURN].n > 0
    /\ IsNum(row[CASH])
    /\ Lt(Num(LongRunwayMonths, 1), Div(row[CASH], row[BURN]))

Warning(row, message) == [name |-> row[NAME], message |-> message]

\* The if / elif / elif chain of one iteration.
RunwayWarnings(row) ==
    IF IsCritical(row) THEN <<Warning(row, Critical)>>
    ELSE IF IsZeroBurn(row) THEN <<Warning(row, ZeroBurn)>>
    ELSE IF IsLongRunway(row) THEN <<Warning(row, LongRunway)>>
    ELSE <<>>

\* A variant: growth <= -0.5.
GrowthWarningsFromLimit(row) ==
    IF IsNum(row[GROWTH]) /\ ~Lt(NegativeGrowthLimit, row[GROWTH])
    THEN <<Warning(row, NegativeGrowth)>>
    ELSE <<>>

\* pd.notna(growth) and growth < -0.5
GrowthWarnings(row) ==
    IF IsNum(row[GROWTH]) /\ Lt(row[GROWTH], NegativeGrowthLimit)
    THEN <<Warning(row, NegativeGrowth)>>
    ELSE <<>>

\* What one iteration appends to warnings.
RowWarnings(row) == RunwayWarnings(row) \o GrowthWarnings(row)

\* The appends of the loop over rows i..Len(rows), each with the index of
\* the row whose iteration made it.
RECURSIVE AppendsFrom(_, _)
AppendsFrom(rows, i) ==
    IF i > Len(rows) THEN <<>>
    ELSE [k \in 1..Len(RowWarnings(rows[i])) |->
            [row |-> i, warning |-> RowWarnings(rows[i])[k]]]
         \o AppendsFrom(rows, i + 1)

Appends(df) == AppendsFrom(df.rows, 1)

\* The local list warnings after the loop.
AllWarnings(df) == [k \in 1..Len(Appends(df)) |-> Appends(df)[k].warning]

\* The exception check_data_quality raises on df, "ok" when it returns: a
\* missing column is a KeyError in the first iteration.
CheckStatus(df) ==
    IF df.rows = <<>> THEN "ok"
    ELSE IF ~(Required \subseteq df.columns) THEN "KeyError"
    ELSE IF \E i \in 1..Len(df.rows) : RowStatus(df.rows[i]) # "ok"
         THEN "TypeError"
    ELSE "ok"

\* A variant: warnings[-4:]
CheckDataQualityLastFour(df) ==
    SubSeq(AllWarnings(df),
           Len(AllWarnings(df)) - Min(MaxWarnings, Len(AllWarnings(df))) + 1,
           Len(AllWarnings(df)))

\* warnings[:4]
CheckDataQuality(df) ==
    SubSeq(AllWarnings(df), 1, Min(MaxWarnings, Len(AllWarnings(df))))

\* ------------------------------------------------------------------- text

UpperCase ==
    <<"A", "B", "C", "D", "E", "F", "G", "H", "I", "J", "K", "L", "M",
      "N", "O", "P", "Q", "R", "S", "T", "U", "V", "W", "X", "Y", "Z">>

LowerCase ==
    <<"a", "b", "c", "d", "e", "f", "g", "h", "i", "j", "k", "l", "m",
      "n", "o", "p", "q", "r", "s", "t", "u", "v", "w", "x", "y", "z">>

LowerChar(c) ==
    IF \E i \in 1..Len(UpperCase) : UpperCase[i] = c
    THEN LowerCase[CHOOSE i \in 1..Len(UpperCase) : UpperCase[i] = c]
    ELSE c

\* str.lower()
Lower(t) == [i \in 1..Len(t) |-> LowerChar(t[i])]

\* str.replace(a, b) for single characters a and b.
ReplaceChar(t, a, b) == [i \in 1..Len(t) |-> IF t[i] = a THEN b ELSE t[i]]

\* Whether text x occurs in text t at position p.
OccursAt(x, t, p) ==
    /\ p >= 1 /\ p + Len(x) - 1 <= Len(t)
    /\ \A i \in 1..Len(x) : t[p + i - 1] = x[i]

\* Whether x occurs in t at position p when case is ignored (x is lower
\* case): re.IGNORECASE.
OccursAtIgnoringCase(x, t, p) ==
    /\ p >= 1 /\ p + Len(x) - 1 <= Len(t)
    /\ \A i \in 1..Len(x) : LowerChar(t[p + i - 1]) = x[i]

\* x in t
Contains(t, x) == \E p \in 1..(Len(t) + 1) : OccursAt(x, t, p)

RECURSIVE Join(_)
\* ''.join(texts)
Join(texts) == IF texts = <<>> THEN <<>> ELSE Head(texts) \o Join(Tail(texts))

\* The end (exclusive) of the whitespace run that starts at p.
SkipSpace(t, p) ==
    LET others == {i \in p..Len(t) : t[i] \notin Whitespace}
    IN  IF others = {} THEN Max(p, Len(t) + 1)
        ELSE CHOOSE i \in others : \A j \in others : i <= j

\* Where a match of \s*\([^)]*\) that starts at p ends (inclusive), 0 when
\* there is none: a whitespace run, "(", and the first ")" after it.
ParenMatchEnd(t, p) ==
    LET q == SkipSpace(t, p)
        closes == {i \in (q + 1)..Len(t) : t[i] = ")"}
    IN  IF q <= Len(t) /\ t[q] = "(" /\ closes # {}
        THEN CHOOSE i \in closes : \A j \in closes : i <= j
        ELSE 0

\* re.sub(r'\s*\([^)]*\)', '', t), scanning from position p.
RECURSIVE RemoveParens(_, _)
RemoveParens(t, p) ==
    IF p > Len(t) THEN <<>>
    ELSE IF ParenMatchEnd(t, p) # 0 THEN RemoveParens(t, ParenMatchEnd(t, p) + 1)
    ELSE <<t[p]>> \o RemoveParens(t, p + 1)

\* A variant: hyphens are kept.
NormalizeHeaderKeepsHyphen(h) ==
    ReplaceChar(Lower(Strip(RemoveParens(h, 1))), " ", "_")

\* The column key of a header cell (line 134).
NormalizeHeader(h) ==
    ReplaceChar(ReplaceChar(Lower(Strip(RemoveParens(h, 1))), " ", "_"), "-", "_")

\* -------------------------------------------------------------- parse_pdf

\* A PDF is a sequence of pages [tables, text]; a table is a sequence of
\* rows, a row a sequence of cells, a cell a text (Str) or None, as
\* pdfplumber's extract_tables returns them; text is extract_text's result.

\* bool(cell): None and '' are false.
Truthy(cell) == cell.k = "str" /\ cell.s # <<>>

\* row_lower (line 120)
RowLower(row) ==
    [j \in 1..Len(row) |-> IF Truthy(row[j]) THEN Lower(row[j].s) ELSE <<>>]

HeaderTokens == {CASH, <<"b", "u", "r", "n">>, <<"g", "r", "o", "w", "t", "h">>}

\* The test of line 121.
IsHeaderRow(row) ==
    LET row_lower == RowLower(row)
        joined == Join(row_lower)
    IN  /\ \E j \in 1..Len(row) : row_lower[j] = NAME
        /\ \E x \in HeaderTokens : Contains(joined, x)

\* The index of the row the header search stops at, 0 when it finds none.
HeaderIndex(table) ==
    LET hs == {i \in 1..Len(table) : IsHeaderRow(table[i])}
    IN  IF hs = {} THEN 0 ELSE CHOOSE i \in hs : \A j \in hs : i <= j

\* not row or not any(row)
IsEmptyRow(row) == \A j \in 1..Len(row) : ~Truthy(row[j])

\* The dict built from one data row (lines 130-135): a later cell overwrites
\* an earlier one of the same key.
RowRecord(header, row) ==
    LET width == Min(Len(row), Len(header))
        col == [j \in 1..width |-> NormalizeHeader(header[j])]
    IN  [c \in {col[j] : j \in 1..width} |->
            row[CHOOSE j \in 1..width :
                    /\ col[j] = c
                    /\ \A j2 \in 1..width : col[j2] = c => j2 <= j]]

\* record.get('name')
HasName(record) == NAME \in DOMAIN record /\ Truthy(record[NAME])

\* The records one table appends, from row i on, under its header.
RECURSIVE DataRecords(_, _, _)
DataRecords(header, table, i) ==
    IF i > Len(table) THEN <<>>
    ELSE LET rest == DataRecords(header, table, i + 1)
             record == RowRecord(header, table[i])
         IN  IF IsEmptyRow(table[i]) THEN rest
             ELSE IF HasName(record) THEN <<record>> \o rest
             ELSE rest

TableRecords(table) ==
    LET i == HeaderIndex(table)
    IN  IF i = 0 THEN <<>>
        ELSE DataRecords(RowLower(table[i]), table, i + 1)

RECURSIVE TablesRecords(_)
TablesRecords(tables) ==
    IF tables = <<>> THEN <<>>
    ELSE TableRecords(Head(tables)) \o TablesRecords(Tail(tables))

\* The key-value path.  Whether name\s*[:\-] matches at p, ignoring case.
NameStartsAt(t, p) ==
    /\ OccursAtIgnoringCase(NAME, t, p)
    /\ SkipSpace(t, p + Len(NAME)) <= Len(t)
    /\ t[SkipSpace(t, p + Len(NAME))] \in {":", "-"}

\* The positions of the newlines re.split(r'\n(?=name\s*[:\-])', t) cuts at.
SplitPoints(t) == {p \in 1..Len(t) : t[p] = "\n" /\ NameStartsAt(t, p + 1)}

\* The blocks of t from position start on, one per cut and the rest.
RECURSIVE SplitBlocks(_, _)
SplitBlocks(t, start) ==
    LET cuts == {p \in start..Len(t) : p \in SplitPoints(t)}
        cut == CHOOSE p \in cuts : \A p2 \in cuts : p <= p2
    IN  IF cuts = {} THEN <<SubSeq(t, start, Len(t))>>
        ELSE <<SubSeq(t, start, cut - 1)>> \o SplitBlocks(t, cut + 1)

ValueStops == {"\n", ",", ";"}

\* Where the group of field\s*[:\-]\s*([^\n,;]+) starts when the pattern
\* matches at p, 0 when it does not: the second \s* takes all the whitespace
\* it can and gives back only as much as the group needs.
GroupStart(block, field, p) ==
    LET q == SkipSpace(block, p + Len(field))
        r == SkipSpace(block, q + 1)
        ok == {g \in (q + 1)..r : g <= Len(block) /\ block[g] \notin ValueStops}
    IN  IF /\ OccursAtIgnoringCase(field, block, p)
           /\ q <= Len(block) /\ block[q] \in {":", "-"}
           /\ ok # {}
        THEN CHOOSE g \in ok : \A g2 \in ok : g2 <= g
        ELSE 0

\* A variant: the group runs to the end of the line.
GroupEndOfLine(block, g) ==
    LET stops == {i \in g..Len(block) : block[i] = "\n"}
    IN  IF stops = {} THEN Len(block)
        ELSE (CHOOSE i \in stops : \A j \in stops : i <= j) - 1

\* The last position of the group that starts at g.
GroupEnd(block, g) ==
    LET stops == {i \in g..Len(block) : block[i] \in ValueStops}
    IN  IF stops = {} THEN Len(block)
        ELSE (CHOOSE i \in stops : \A j \in stops : i <= j) - 1

\* re.search(pattern, block): the positions the pattern matches at.
MatchStarts(block, field) ==
    {p \in 1..Len(block) : GroupStart(block, field, p) # 0}

\* match.group(1).strip() of the leftmost match.
FieldValue(block, field) ==
    LET starts == MatchStarts(block, field)
        p == CHOOSE p1 \in starts : \A p2 \in starts : p1 <= p2
        g == GroupStart(block, field, p)
    IN  Str(Strip(SubSeq(block, g, GroupEnd(block, g))))

\* The dict built from one block (lines 145-150).
BlockRecord(block) ==
    [c \in {f \in Required : MatchStarts(block, f) # {}} |-> FieldValue(block, c)]

RECURSIVE BlocksRecords(_)
BlocksRecords(blocks) ==
    IF blocks = <<>> THEN <<>>
    ELSE LET record == BlockRecord(Head(blocks))
         IN  IF HasName(record)
             THEN <<record>> \o BlocksRecords(Tail(blocks))
             ELSE BlocksRecords(Tail(blocks))

TextRecords(text) == BlocksRecords(SplitBlocks(text, 1))

\* A variant: the text of the pages is parsed only when no table of any
\* page gave a record.
RECURSIVE AllTableRecords(_)
AllTableRecords(pages) ==
    IF pages = <<>> THEN <<>>
    ELSE TablesRecords(Head(pages).tables) \o AllTableRecords(Tail(pages))

RECURSIVE AllTextRecords(_)
AllTextRecords(pages) ==
    IF pages = <<>> THEN <<>>
    ELSE TextRecords(Head(pages).text) \o AllTextRecords(Tail(pages))

GatherTextLast(pages, i, records) ==
    IF AllTableRecords(pages) = <<>> THEN AllTextRecords(pages)
    ELSE AllTableRecords(pages)

\* records after the loop over pages i..Len(pages) (lines 111-152): the text
\* of a page is parsed only while records is still empty after its tables.
RECURSIVE Gather(_, _, _)
Gather(pages, i, records) ==
    IF i > Len(pages) THEN records
    ELSE LET withTables == records \o TablesRecords(pages[i].tables)
         IN  Gather(pages, i + 1,
                    IF withTables = <<>> THEN TextRecords(pages[i].text)
                    ELSE withTables)

\* Where each record of Gather comes from: the page, the path ("table" for
\* lines 113-137, "text" for lines 140-152) and its index among the records
\* that path makes of the page.
PathOrigins(page, path, n) ==
    [j \in 1..n |-> [page |-> page, path |-> path, index |-> j]]

RECURSIVE Origins(_, _, _)
Origins(pages, i, origins) ==
    IF i > Len(pages) THEN origins
    ELSE LET withTables ==
                 origins \o PathOrigins(i, "table",
                                        Len(TablesRecords(pages[i].tables)))
         IN  Origins(pages, i + 1,
                     IF withTables = <<>>
                     THEN PathOrigins(i, "text", Len(TextRecords(pages[i].text)))
                     ELSE withTables)

\* For each page, the records its tables give, those of each table, and the
\* records its text gives when it is parsed.
PerPage(pages) ==
    [k \in 1..Len(pages) |->
        [tables |-> TablesRecords(pages[k].tables),
         each |-> [t \in 1..Len(pages[k].tables) |->
                     TableRecords(pages[k].tables[t])],
         text |-> TextRecords(pages[k].text)]]

\* The pages whose text is parsed: "if not records" holds at line 140.
TextParsedPages(pages) ==
    {k \in 1..Len(pages) :
        Gather(SubSeq(pages, 1, k - 1), 1, <<>>)
            \o TablesRecords(pages[k].tables) = <<>>}

\* pd.DataFrame(records): the columns are the keys of all records; a key a
\* record lacks is NaN in its row.
RecordKeys(records) == UNION {DOMAIN records[i] : i \in 1..Len(records)}

DataFrame(records) ==
    [columns |-> RecordKeys(records),
     rows |-> [i \in 1..Len(records) |->
                 [c \in RecordKeys(records) |->
                     IF c \in DOMAIN records[i] THEN records[i][c] ELSE NaN]]]

\* The lambda of line 166.
ConvertCell(v) == IF NotNa(v) THEN ParseNumber(v) ELSE None

\* Series.apply keeps a result of None only as an object column; with a
\* number among the results the column is float64 and None becomes NaN.
ConvertValues(vals) ==
    IF \A i \in 1..Len(vals) : ConvertCell(vals[i]) = None
    THEN [i \in 1..Len(vals) |-> None]
    ELSE [i \in 1..Len(vals) |->
            IF ConvertCell(vals[i]) = None THEN NaN ELSE ConvertCell(vals[i])]

\* Lines 164-166 on a DataFrame.
ConvertNumeric(df) ==
    [columns |-> df.columns,
     rows |-> [i \in 1..Len(df.rows) |->
                 [c \in df.columns |->
                     IF c \in NumericColumns
                     THEN ConvertValues(Col(df, c))[i]
                     ELSE df.rows[i][c]]]]

EmptyFrame == [columns |-> {}, rows |-> <<>>]

\* A variant: no column is looked for.
MissingNone(df) == {}

\* missing (line 169)
Missing(df) == Required \ df.columns

\* Leaving by sys.exit(1) or by an exception: no DataFrame is returned.
Exit(status) == [status |-> status, records |-> <<>>, df |-> EmptyFrame]

\* parse_pdf(filepath): its status, every one but "ok" a sys.exit(1), the
\* list records and the DataFrame returned.
ParsePdf(doc) ==
    IF ~doc.readable THEN Exit("SourceUnreadable")
    ELSE LET gathered == Gather(doc.pages, 1, <<>>)
             converted == ConvertNumeric(DataFrame(gathered))
         IN  IF gathered = <<>> THEN Exit("NoDataFound")
             ELSE IF Missing(converted) # {}
             THEN [status |-> "MissingRequiredField", records |-> gathered,
                   df |-> EmptyFrame]
             ELSE [status |-> "ok", records |-> gathered, df |-> converted]

\* --------------------------------------------------------------- load_data

\* A CSV is a header (a sequence of texts) and lines of as many cells each.
\* pd.read_csv: an empty cell is NaN; a column whose other cells are all
\* numbers is numeric, any other column keeps its texts as they are.
CsvColumnIsNumeric(doc, j) ==
    \A i \in 1..Len(doc.lines) :
        doc.lines[i][j] = <<>> \/ IsFloatLiteral(doc.lines[i][j])

CsvCell(doc, i, j) ==
    IF doc.lines[i][j] = <<>> THEN NaN
    ELSE IF CsvColumnIsNumeric(doc, j) THEN FloatValue(doc.lines[i][j])
    ELSE Str(doc.lines[i][j])

CsvIndexOf(doc, c) == CHOOSE j \in 1..Len(doc.header) : doc.header[j] = c

ReadCsv(doc) ==
    [columns |-> {doc.header[j] : j \in 1..Len(doc.header)},
     rows |-> [i \in 1..Len(doc.lines) |->
                 [c \in {doc.header[j] : j \in 1..Len(doc.header)} |->
                     CsvCell(doc, i, CsvIndexOf(doc, c))]]]

\* A variant: a CSV is validated as parse_pdf validates a PDF.
LoadDataValidated(doc) ==
    IF doc.ext = "csv"
    THEN IF ~doc.readable THEN Exit("FileNotFound")
         ELSE IF ReadCsv(doc).rows = <<>> THEN Exit("NoDataFound")
         ELSE IF Missing(ReadCsv(doc)) # {} THEN Exit("MissingRequiredField")
         ELSE [status |-> "ok", records |-> <<>>, df |-> ReadCsv(doc)]
    ELSE IF doc.ext = "pdf" THEN ParsePdf(doc)
    ELSE Exit("Unsupported")

\* The exceptions load_data lets through: pd.read_csv raises EmptyDataError
\* on a file without a header line; every other status but "ok" is a
\* sys.exit(1).
Raised == {"EmptyDataError"}

\* load_data(filepath) with use_ai=False.
LoadData(doc) ==
    IF doc.ext = "csv"
    THEN IF ~doc.readable THEN Exit("FileNotFound")
         ELSE IF doc.header = <<>> THEN Exit("EmptyDataError")
         ELSE [status |-> "ok", records |-> <<>>, df |-> ReadCsv(doc)]
    ELSE IF doc.ext = "pdf" THEN ParsePdf(doc)
    ELSE Exit("Unsupported")

\* ------------------------------------------------------- parse_pdf_with_ai

\* pd.to_numeric(..., errors='coerce') on one value: a number is kept, a
\* text that writes a number is that number, anything else is NaN.
ToNumeric(v) ==
    IF v.k = "num" THEN v
    ELSE IF v.k = "str" /\ IsFloatLiteral(v.s) THEN FloatValue(v.s)
    ELSE NaN

\* Lines 294-295 on a DataFrame.
CoerceNumeric(df) ==
    [columns |-> df.columns,
     rows |-> [i \in 1..Len(df.rows) |->
                 [c \in df.columns |->
                     IF c \in NumericColumns THEN ToNumeric(df.rows[i][c])
                     ELSE df.rows[i][c]]]]

\* Lines 280-298 on the list the answer of the service decodes to.
ValidateAi(data) ==
    IF data = <<>> THEN Exit("NoDataFound")
    ELSE IF Missing(DataFrame(data)) # {} THEN Exit("MissingRequiredField")
    ELSE [status |-> "ok", records |-> data,
          df |-> CoerceNumeric(DataFrame(data))]

\* -------------------------------------------------------------------- main

\* pd.concat(all_dfs, ignore_index=True): the rows in list order under the
\* columns of all frames, NaN where a frame has no such column.
RECURSIVE ConcatRows(_)
ConcatRows(dfs) ==
    IF dfs = <<>> THEN <<>> ELSE Head(dfs).rows \o ConcatRows(Tail(dfs))

PdConcat(dfs) ==
    LET columns == UNION {dfs[i].columns : i \in 1..Len(dfs)}
        rows == ConcatRows(dfs)
    IN  [columns |-> columns,
         rows |-> [i \in 1..Len(rows) |->
                     [c \in columns |->
                         IF c \in DOMAIN rows[i] THEN rows[i][c] ELSE NaN]]]

\* --------------------------------------------------------------- documents

\* Most lines of a CSV drawn for the warning cases, for the growth cases and
\* for the runway cases.
MaxRows == 3

MaxGrowthRows == 4

MaxRunwayRows == 2

\* Most data rows of a PDF table, and most pages of a PDF.
MaxPdfRows == 2

MaxPages == 2

\* The name of the i-th row of a drawn document.
RowNames == <<<<"A">>, <<"B">>, <<"C">>, <<"D">>, <<"E">>, <<"F">>>>

Csv(header, lines) ==
    [ext |-> "csv", readable |-> TRUE, header |-> header, lines |-> lines,
     pages |-> <<>>]

Pdf(pages) ==
    [ext |-> "pdf", readable |-> TRUE, header |-> <<>>, lines |-> <<>>,
     pages |-> pages]

\* Every CSV of n lines whose cells after the name are drawn from profiles.
CsvOf(n, profiles) ==
    {Csv(<<NAME, CASH, BURN, GROWTH>>,
         [i \in 1..n |-> <<RowNames[i]>> \o f[i]]) : f \in [1..n -> profiles]}

\* One line over the full grid: runway below, at and above 1 and 120 months,
\* zero, negative and missing burn, growth below, at and above -0.5, and a
\* cell that is no number in each column.
FineCash == {<<>>, <<"0">>, <<"4">>, <<"5">>, <<"6", "0", "0">>, <<"6", "0", "1">>, <<"€", "6", "0", "1">>}

FineBurn == {<<>>, <<"-", "1">>, <<"0">>, <<"1">>, <<"5">>, <<"a", "b", "c">>}

FineGrowth == {<<>>, <<"-", "0", ".", "6">>, <<"-", "0", ".", "5">>, <<"0", ".", "3">>, <<"1", "5", "%">>}

FineDocs == CsvOf(1, FineCash \X FineBurn \X FineGrowth)

\* Several lines: runway below 1, of 120 and above 120 months, zero burn,
\* missing cash and missing burn.
RunwayDocs ==
    UNION {CsvOf(n, {<<>>, <<"4">>, <<"6", "0", "0">>}
                    \X {<<>>, <<"0">>, <<"5">>}
                    \X {<<"0", ".", "3">>}) : n \in 0..MaxRunwayRows}

\* Several lines: equal, different and missing growth.
GrowthDocs ==
    UNION {CsvOf(n, {<<"5">>} \X {<<"1">>}
                    \X {<<>>, <<"0", ".", "1">>, <<"0", ".", "3">>}) :
           n \in 0..MaxGrowthRows}

\* Several lines with no, one or two warnings each.
WarningProfiles ==
    {<<<<"4">>, <<"5">>, <<"-", "0", ".", "6">>>>,
     <<<<"4">>, <<"5">>, <<"0", ".", "3">>>>,
     <<<<"4">>, <<"0">>, <<"-", "0", ".", "6">>>>,
     <<<<"6", "0", "1">>, <<"5">>, <<"0", ".", "3">>>>,
     <<<<>>, <<"5">>, <<"0", ".", "3">>>>}

WarningDocs == UNION {CsvOf(n, WarningProfiles) : n \in 0..MaxRows}

\* A CSV with any of the four columns, in file order, and one line or none;
\* and one whose header is written as in the sample PDF.
HeaderOf(cols) ==
    SelectSeq(<<NAME, CASH, BURN, GROWTH>>, LAMBDA c : c \in cols)

HealthyCell(c) ==
    IF c = NAME THEN <<"A">>
    ELSE IF c = CASH THEN <<"5">>
    ELSE IF c = BURN THEN <<"1">>
    ELSE <<"0", ".", "3">>

SampleHeader ==
    <<<<"N", "a", "m", "e">>,
      <<"C", "a", "s", "h", " ", "(", "€", ")">>,
      <<"M", "o", "n", "t", "h", "l", "y", " ", "B", "u", "r", "n", " ", "(", "€", ")">>,
      <<"R", "e", "v", "e", "n", "u", "e", " ", "G", "r", "o", "w", "t", "h">>>>

ColumnDocs ==
    {Csv(HeaderOf(cols),
         [i \in 1..n |-> [j \in 1..Len(HeaderOf(cols)) |->
                            HealthyCell(HeaderOf(cols)[j])]]) :
        cols \in SUBSET Required, n \in 0..1}
    \cup {Csv(SampleHeader, <<<<<<"A">>, <<"5">>, <<"1">>, <<"0", ".", "3">>>>>>)}

\* PDF tables: a header row and data rows.
ShortHeader == <<<<"N", "a", "m", "e">>, <<"C", "a", "s", "h">>, <<"M", "o", "n", "t", "h", "l", "y", "-", "B", "u", "r", "n">>>>

NoHeader == <<<<"C", "o", "m", "p", "a", "n", "y">>, <<"C", "a", "s", "h">>, <<"B", "u", "r", "n">>, <<"G", "r", "o", "w", "t", "h">>>>

HeaderRow(h) == [j \in 1..Len(h) |-> Str(h[j])]

PdfRowsAt(i) ==
    {<<nm, ca, Str(<<"5">>), Str(<<"1", "5", "%">>)>> :
        nm \in {Str(RowNames[i]), Str(<<" ">>), None},
        ca \in {Str(<<"€", "6", "0", "1">>), Str(<<"n", "/", "a">>), None}}

PdfTables ==
    {<<HeaderRow(h)>> \o rows :
        h \in {SampleHeader, ShortHeader, NoHeader},
        rows \in UNION {{f \in [1..n -> UNION {PdfRowsAt(i) : i \in 1..n}] :
                            \A i \in 1..n : f[i] \in PdfRowsAt(i)} :
                        n \in 0..MaxPdfRows}}

\* Page texts: nothing, no data, one block, a block without the numeric
\* fields, and two blocks.
KeyValueText ==
    <<"N", "a", "m", "e", ":", " ", "A", ",", " ", "C", "a", "s", "h", ":", " ", "€", "6", "0", "1", ",", " ", "M", "o", "n", "t", "h", "l", "y", "_", "B", "u", "r", "n", ":", " ", "5", ",", " ", "R", "e", "v", "e", "n", "u", "e", "_", "G", "r", "o", "w", "t", "h", ":", " ", "-", "0", ".", "6">>

NameOnlyText == <<"N", "a", "m", "e", ":", " ", "A", ",", " ", "C", "a", "s", "h", ":", " ", "6", "0", "1">>

TwoBlocksText ==
    <<"n", "a", "m", "e", " ", "-", " ", "A", ";", " ", "c", "a", "s", "h", ":", " ", "4", ";", " ", "m", "o", "n", "t", "h", "l", "y", "_", "b", "u", "r", "n", ":", " ", "5", ";", " ", "r", "e", "v", "e", "n", "u", "e", "_", "g", "r", "o", "w", "t", "h", ":", " ", "x", "\n", "N", "A", "M", "E", ":", " ", "B", ";", " ", "c", "a", "s", "h", ":", " ", "1", ",", "0", "0", "0", ";", " ", "m", "o", "n", "t", "h", "l", "y", "_", "b", "u", "r", "n", ":", " ", "0", ";", " ", "r", "e", "v", "e", "n", "u", "e", "_", "g", "r", "o", "w", "t", "h", ":", " ", "1", "5", "%">>

BlankNameText == <<"N", "a", "m", "e", ":", " ", ";", " ", "C", "a", "s", "h", ":", " ", "5">>

\* Numbers written with thousands separators, as a text and as table cells.
ThousandsCell == <<"1", ",", "0", "0", "0", ",", "0", "0", "0">>

ThousandsText ==
    <<"N", "a", "m", "e", ":", " ", "A", ",", " ", "c", "a", "s", "h", ":", " ", "1", ",", "0", "0", "0", ",", "0", "0", "0", ",", " ", "M", "o", "n", "t", "h", "l", "y", "_", "B", "u", "r", "n", ":", " ", "2", ",", "5", "0", "0", ",", " ", "R", "e", "v", "e", "n", "u", "e", "_", "G", "r", "o", "w", "t", "h", ":", " ", "1", "5", "%">>

ThousandsTable ==
    <<HeaderRow(SampleHeader),
      <<Str(<<"B">>), Str(ThousandsCell), Str(<<"2", ",", "5", "0", "0">>), Str(<<"1", "5", "%">>)>>>>

PageTexts ==
    {<<>>, <<"Q", "3", " ", "r", "e", "p", "o", "r", "t">>, KeyValueText,
     NameOnlyText, TwoBlocksText, BlankNameText, ThousandsText}

GoodTable ==
    <<HeaderRow(SampleHeader),
      <<Str(<<"A">>), Str(<<"€", "6", "0", "1">>), Str(<<"5">>), Str(<<"1", "5", "%">>)>>>>

SmallPages ==
    {[tables |-> <<GoodTable>>, text |-> KeyValueText],
     [tables |-> <<<<HeaderRow(NoHeader)>>>>, text |-> <<>>],
     [tables |-> <<>>, text |-> <<>>]}
    \cup {[tables |-> <<>>, text |-> t] : t \in {KeyValueText, NameOnlyText}}

\* Tables with rows before the header and a second header among the data
\* rows, with a header word that only the joined cells spell, and no rows.
PreambleTable ==
    <<<<Str(<<"P", "o", "r", "t", "f", "o", "l", "i", "o">>), None, None, None>>,
      <<Str(<<"N", "a", "m", "e">>), Str(<<"T", "o", "t", "a", "l">>), None, None>>,
      HeaderRow(SampleHeader),
      <<Str(<<"A">>), Str(<<"4">>), Str(<<"5">>), Str(<<"1">>)>>,
      HeaderRow(ShortHeader),
      <<Str(<<"B">>), Str(<<"4">>), Str(<<"5">>), Str(<<"1">>)>>>>

SpanningTable ==
    <<<<Str(<<"N", "a", "m", "e">>), Str(<<"S", "u", "b">>), Str(<<"u", "r", "n">>)>>,
      <<Str(<<"A">>), Str(<<"4">>), Str(<<"5">>)>>>>

HeaderTables ==
    {<<PreambleTable>>, <<SpanningTable>>, <<<<>>, GoodTable>>,
     <<<<HeaderRow(NoHeader), GoodTable[2]>>, GoodTable, PreambleTable>>,
     <<ThousandsTable, SpanningTable>>}

PdfDocs ==
    {Pdf(<<[tables |-> <<t>>, text |-> <<>>]>>) :
        t \in PdfTables \cup {ThousandsTable}}
    \cup {Pdf(<<[tables |-> ts, text |-> t]>>) :
            ts \in HeaderTables, t \in {<<>>, KeyValueText}}
    \cup {Pdf(<<[tables |-> <<>>, text |-> ThousandsText],
                [tables |-> <<ThousandsTable>>, text |-> ThousandsText]>>)}
    \cup {Pdf(<<[tables |-> <<>>, text |-> t]>>) : t \in PageTexts}
    \cup UNION {{Pdf(ps) : ps \in [1..n -> SmallPages]} : n \in 0..MaxPages}

OtherDocs ==
    {[ext |-> e, readable |-> r, header |-> <<>>, lines |-> <<>>, pages |-> <<>>] :
        e \in {"csv", "pdf", "txt"}, r \in {FALSE}}

Documents ==
    FineDocs \cup RunwayDocs \cup GrowthDocs \cup WarningDocs \cup ColumnDocs
    \cup PdfDocs \cup OtherDocs

\* The lists the service's answer decodes to: up to MaxAiRecords records
\* with any of the four keys; a value is a number, a text or null.
MaxAiRecords == 2

AiValues(c) ==
    IF c = NAME THEN {Str(<<"A">>)}
    ELSE IF c = CASH THEN {Num(5, 1), Str(<<"€", "5">>), None}
    ELSE IF c = BURN THEN {Str(<<"5">>)}
    ELSE {Num(1, 10)}

AiRecords ==
    UNION {{r \in [ks -> UNION {AiValues(c) : c \in Required}] :
               \A c \in ks : r[c] \in AiValues(c)} : ks \in SUBSET Required}

AiResponses == UNION {[1..n -> AiRecords] : n \in 0..MaxAiRecords}

\* The files of a run: up to MaxFiles of a CSV with all columns, one with
\* name and cash only, an empty one and a missing one, and a PDF with a
\* table and one without data.
MaxFiles == 3

FineCsv ==
    Csv(<<NAME, CASH, BURN, GROWTH>>,
        <<<<<<"A">>, <<"5">>, <<"1">>, <<"0", ".", "3">>>>>>)

PartialCsv == Csv(<<NAME, CASH>>, <<<<<<"B">>, <<"4">>>>>>)

EmptyCsv == Csv(<<>>, <<>>)

MissingCsv ==
    [ext |-> "csv", readable |-> FALSE, header |-> <<>>, lines |-> <<>>,
     pages |-> <<>>]

TablePdf == Pdf(<<[tables |-> <<ThousandsTable>>, text |-> <<>>]>>)

BlankPdf == Pdf(<<[tables |-> <<>>, text |-> <<>>]>>)

BatchDocs == {FineCsv, PartialCsv, EmptyCsv, MissingCsv, TablePdf, BlankPdf}

FileLists == UNION {[1..n -> BatchDocs] : n \in 1..MaxFiles}

\* Header cells: every text up to MaxCellLen over CellAlphabet, and the
\* cells of the sample table and their other spellings.
MaxCellLen == 3

CellAlphabet == {"A", "b", " ", "-", "_", "(", ")"}

HeaderCells ==
    UNION {[1..n -> CellAlphabet] : n \in 0..MaxCellLen}
    \cup {SampleHeader[j] : j \in 1..Len(SampleHeader)}
    \cup {ShortHeader[j] : j \in 1..Len(ShortHeader)}
    \cup {BURN, <<"M", "O", "N", "T", "H", "L", "Y", " ", "(", "E", "U", "R", ")", " ", "B", "U", "R", "N", " ">>}

\* The inputs of _parse_number: every text up to MaxStrLen over Alphabet, the
\* examples of the specification and the tests, some numbers, and None.
Alphabet == {"0", "1", "5", ".", ",", "€", "$", "%", " ", "-", "a"}

Examples ==
    {<<"$", "1", ",", "0", "0", "0", ",", "0", "0", "0", ".", "0", "0">>,
     <<"1", "5", "%">>,
     <<"a", "b", "c">>,
     <<"€", "1", ".", "0", "0", "0", ".", "0", "0", "0", ",", "0", "0">>,
     <<"€", "1", "0", "0", "0", "0", "0", "0">>,
     <<"n", "o", "t", " ", "a", " ", "n", "u", "m", "b", "e", "r">>}

NumberInputs ==
    {Str(t) : t \in UNION {[1..n -> Alphabet] : n \in 0..MaxStrLen} \cup Examples}
    \cup {Num(n, d) : n \in {-3, 0, 1, 3001, 1000000}, d \in {1, 2}}
    \cup {None, NaN, HugeInt}

\* ------------------------------------------------------------ specification

VARIABLES
    doc,        \* the document load_data is called on
    loaded,     \* "no", then "ok" or the failure of load_data
    records,    \* the list of records parse_pdf gathered
    origins,    \* for each of them, the page and the path it came from
    textPages,  \* the pages whose text parse_pdf parsed
    perPage,    \* the records each path gives for each page
    df,         \* the DataFrame load_data returned
    analyzed,   \* "no", then "ok" or the exception of analyze_data(df)
    results,    \* the dict analyze_data returned
    checked,    \* "no", then "ok" or the exception of check_data_quality(df)
    emitted,    \* the appends of check_data_quality's loop, with their rows
    warnings,   \* the list check_data_quality returned
    value,      \* the argument of _parse_number
    called,     \* whether _parse_number has returned
    parsed,     \* what _parse_number returned
    headerCell, \* the header cell a column key is made of
    passes,     \* how many times the normalization has been applied
    key,        \* the column key of headerCell
    rekey,      \* the column key of key
    data,       \* the list the answer of the AI service decoded to
    validated,  \* "no", then "ok" or the failure of the validation
    ai_df,      \* the DataFrame parse_pdf_with_ai returned
    files,      \* the input files of a run of main
    loads,      \* for each of them, what load_data does on it
    pc,         \* where main is
    position,   \* the index of the next file of the batch loop
    attempted,  \* the indices load_data was called on, in call order
    all_dfs,    \* the DataFrames collected by the batch loop
    successful, \* the tally of files loaded
    failed,     \* the tally of files not loaded
    combined_df,\* the DataFrame the metrics are computed over
    metrics,    \* the calls of analyze_data: status, DataFrame and result
    quality     \* the calls of check_data_quality: status and warnings

fileVars ==
    <<doc, loaded, records, origins, textPages, perPage, df, analyzed,
      results, checked, emitted, warnings>>

numberVars == <<value, called, parsed>>

keyVars == <<headerCell, passes, key, rekey>>

aiVars == <<data, validated, ai_df>>

mainVars ==
    <<files, loads, pc, position, attempted, all_dfs, successful, failed,
      combined_df, metrics, quality>>

vars == <<fileVars, numberVars, keyVars, aiVars, mainVars>>

NoDocument == Pdf(<<>>)

\* The parts of the state a run does not use.
NoFile ==
    /\ doc = NoDocument
    /\ loaded = "no"
    /\ records = <<>>
    /\ origins = <<>>
    /\ textPages = {}
    /\ perPage = <<>>
    /\ df = EmptyFrame
    /\ analyzed = "no"
    /\ results = NoResults
    /\ checked = "no"
    /\ emitted = <<>>
    /\ warnings = <<>>

NoNumber ==
    /\ value = None
    /\ called = "no"
    /\ parsed = None

NoKey ==
    /\ headerCell = <<>>
    /\ passes = 0
    /\ key = <<>>
    /\ rekey = <<>>

NoAi ==
    /\ data = <<>>
    /\ validated = "no"
    /\ ai_df = EmptyFrame

NoMain ==
    /\ files = <<>>
    /\ loads = <<>>
    /\ pc = "done"
    /\ position = 1
    /\ attempted = <<>>
    /\ all_dfs = <<>>
    /\ successful = 0
    /\ failed = 0
    /\ combined_df = EmptyFrame
    /\ metrics = <<>>
    /\ quality = <<>>

Init ==
    /\ doc \in Documents
    /\ loaded = "no"
    /\ records = <<>>
    /\ origins = <<>>
    /\ textPages = {}
    /\ perPage = <<>>
    /\ df = EmptyFrame
    /\ analyzed = "no"
    /\ results = NoResults
    /\ checked = "no"
    /\ emitted = <<>>
    /\ warnings = <<>>
    /\ NoNumber
    /\ NoKey
    /\ NoAi
    /\ NoMain

\* df = load_data(doc)
Load ==
    /\ loaded = "no"
    /\ LET result == LoadData(doc)
       IN  /\ loaded' = result.status
           /\ records' = result.records
           /\ df' = result.df
    /\ origins' = IF doc.ext = "pdf" /\ doc.readable
                  THEN Origins(doc.pages, 1, <<>>)
                  ELSE <<>>
    /\ textPages' = IF doc.ext = "pdf" /\ doc.readable
                    THEN TextParsedPages(doc.pages)
                    ELSE {}
    /\ perPage' = IF doc.ext = "pdf" /\ doc.readable
                  THEN PerPage(doc.pages)
                  ELSE <<>>
    /\ UNCHANGED <<doc, analyzed, results, checked, emitted, warnings>>
    /\ UNCHANGED <<numberVars, keyVars, aiVars, mainVars>>

\* results = analyze_data(df)
Analyze ==
    /\ loaded = "ok"
    /\ analyzed = "no"
    /\ analyzed' = AnalyzeStatus(df)
    /\ results' = IF AnalyzeStatus(df) = "ok" THEN AnalyzeData(df) ELSE NoResults
    /\ UNCHANGED <<doc, loaded, records, origins, textPages, perPage, df,
                   checked, emitted, warnings>>
    /\ UNCHANGED <<numberVars, keyVars, aiVars, mainVars>>

\* warnings = check_data_quality(df)
Check ==
    /\ loaded = "ok"
    /\ checked = "no"
    /\ checked' = CheckStatus(df)
    /\ emitted' = IF CheckStatus(df) = "ok" THEN Appends(df) ELSE <<>>
    /\ warnings' = IF CheckStatus(df) = "ok" THEN CheckDataQuality(df) ELSE <<>>
    /\ UNCHANGED <<doc, loaded, records, origins, textPages, perPage, df,
                   analyzed, results>>
    /\ UNCHANGED <<numberVars, keyVars, aiVars, mainVars>>

Next == Load \/ Analyze \/ Check

Spec == Init /\ [][Next]_vars

\* _parse_number on its own.
InitNum ==
    /\ value \in NumberInputs
    /\ called = "no"
    /\ parsed = None
    /\ NoFile
    /\ NoKey
    /\ NoAi
    /\ NoMain

\* parsed = _parse_number(value)
Parse ==
    /\ called = "no"
    /\ called' = ParseNumberStatus(value)
    /\ parsed' = IF ParseNumberStatus(value) = "ok"
                 THEN ParseNumber(value)
                 ELSE None
    /\ UNCHANGED <<value, fileVars, keyVars, aiVars, mainVars>>

NextNum == Parse

SpecNum == InitNum /\ [][NextNum]_vars

\* The column key of a header cell on its own (line 134), and the key of
\* that key.
InitKey ==
    /\ headerCell \in HeaderCells
    /\ passes = 0
    /\ key = <<>>
    /\ rekey = <<>>
    /\ NoFile
    /\ NoNumber
    /\ NoAi
    /\ NoMain

Normalize ==
    /\ passes = 0
    /\ passes' = 1
    /\ key' = NormalizeHeader(headerCell)
    /\ UNCHANGED <<headerCell, rekey>>
    /\ UNCHANGED <<fileVars, numberVars, aiVars, mainVars>>

NormalizeAgain ==
    /\ passes = 1
    /\ passes' = 2
    /\ rekey' = NormalizeHeader(key)
    /\ UNCHANGED <<headerCell, key>>
    /\ UNCHANGED <<fileVars, numberVars, aiVars, mainVars>>

NextKey == Normalize \/ NormalizeAgain

SpecKey == InitKey /\ [][NextKey]_vars

\* The validation of parse_pdf_with_ai on its own (lines 280-298).
InitAi ==
    /\ data \in AiResponses
    /\ validated = "no"
    /\ ai_df = EmptyFrame
    /\ NoFile
    /\ NoNumber
    /\ NoKey
    /\ NoMain

Validate ==
    /\ validated = "no"
    /\ validated' = ValidateAi(data).status
    /\ ai_df' = ValidateAi(data).df
    /\ UNCHANGED <<data, fileVars, numberVars, keyVars, mainVars>>

NextAi == Validate

SpecAi == InitAi /\ [][NextAi]_vars

\* main on its files, without --ai and --output.
InitMain ==
    /\ files \in FileLists
    /\ loads = [i \in 1..Len(files) |-> LoadData(files[i])]
    /\ pc = IF Len(files) = 1 THEN "single" ELSE "loop"
    /\ position = 1
    /\ attempted = <<>>
    /\ all_dfs = <<>>
    /\ successful = 0
    /\ failed = 0
    /\ combined_df = EmptyFrame
    /\ metrics = <<>>
    /\ quality = <<>>
    /\ NoFile
    /\ NoNumber
    /\ NoKey
    /\ NoAi

\* Line 518: df = load_data(files[0]); a failure ends the run.
LoadSingle ==
    /\ pc = "single"
    /\ pc' = IF loads[1].status = "ok" THEN "analyze" ELSE "failed"
    /\ combined_df' = loads[1].df
    /\ attempted' = Append(attempted, 1)
    /\ UNCHANGED <<files, loads, position, all_dfs, successful, failed, metrics,
                   quality>>
    /\ UNCHANGED <<fileVars, numberVars, keyVars, aiVars>>

\* A variant of the loop body: only SystemExit is caught.
AttemptCatchesExit ==
    /\ pc = "loop"
    /\ position <= Len(files)
    /\ all_dfs' = IF loads[position].status = "ok"
                  THEN Append(all_dfs, loads[position].df)
                  ELSE all_dfs
    /\ successful' = IF loads[position].status = "ok"
                     THEN successful + 1
                     ELSE successful
    /\ failed' = IF loads[position].status \notin {"ok"} \cup Raised
                 THEN failed + 1
                 ELSE failed
    /\ pc' = IF loads[position].status \in Raised THEN "failed" ELSE pc
    /\ attempted' = Append(attempted, position)
    /\ position' = position + 1
    /\ UNCHANGED <<files, loads, combined_df, metrics, quality>>
    /\ UNCHANGED <<fileVars, numberVars, keyVars, aiVars>>

\* Lines 545-555: one iteration of the batch loop.
Attempt ==
    /\ pc = "loop"
    /\ position <= Len(files)
    /\ all_dfs' = IF loads[position].status = "ok"
                  THEN Append(all_dfs, loads[position].df)
                  ELSE all_dfs
    /\ successful' = IF loads[position].status = "ok"
                     THEN successful + 1
                     ELSE successful
    /\ failed' = IF loads[position].status = "ok" THEN failed ELSE failed + 1
    /\ attempted' = Append(attempted, position)
    /\ position' = position + 1
    /\ UNCHANGED <<files, loads, pc, combined_df, metrics, quality>>
    /\ UNCHANGED <<fileVars, numberVars, keyVars, aiVars>>

\* Lines 557-564: after the loop, sys.exit(1) without a DataFrame, the
\* concatenation otherwise.
Combine ==
    /\ pc = "loop"
    /\ position > Len(files)
    /\ pc' = IF all_dfs = <<>> THEN "failed" ELSE "analyze"
    /\ combined_df' = IF all_dfs = <<>> THEN combined_df ELSE PdConcat(all_dfs)
    /\ UNCHANGED <<files, loads, position, attempted, all_dfs, successful,
                   failed,
                   metrics, quality>>
    /\ UNCHANGED <<fileVars, numberVars, keyVars, aiVars>>

\* Lines 519 and 565: results = analyze_data(df); an exception ends the run.
Metrics ==
    /\ pc = "analyze"
    /\ LET status == AnalyzeStatus(combined_df)
       IN  /\ metrics' = Append(metrics,
                  [status |-> status, df |-> combined_df,
                   results |-> IF status = "ok" THEN AnalyzeData(combined_df)
                               ELSE NoResults])
           /\ pc' = IF status = "ok" THEN "check" ELSE "failed"
    /\ UNCHANGED <<files, loads, position, attempted, all_dfs, successful,
                   failed,
                   combined_df, quality>>
    /\ UNCHANGED <<fileVars, numberVars, keyVars, aiVars>>

\* Lines 521 and 567: warnings = check_data_quality(df).
Quality ==
    /\ pc = "check"
    /\ LET status == CheckStatus(combined_df)
       IN  /\ quality' = Append(quality,
                  [status |-> status, df |-> combined_df,
                   warnings |-> IF status = "ok"
                                THEN CheckDataQuality(combined_df)
                                ELSE <<>>])
           /\ pc' = IF status = "ok" THEN "done" ELSE "failed"
    /\ UNCHANGED <<files, loads, position, attempted, all_dfs, successful,
                   failed,
                   combined_df, metrics>>
    /\ UNCHANGED <<fileVars, numberVars, keyVars, aiVars>>

NextMain == LoadSingle \/ Attempt \/ Combine \/ Metrics \/ Quality

SpecMain == InitMain /\ [][NextMain]_vars

\* The loop of lines 545-555 is a for loop over a list, and load_data
\* returns or raises on every file: an iteration that can be taken is taken,
\* and so is the step after the loop.
SpecMainFair == SpecMain /\ WF_mainVars(Attempt) /\ WF_mainVars(Combine)

\* -------------------------------------------------------------- properties

\* The runway warning the rules of the quality check give row i of df, as a
\* set of messages; cash / burn is compared by cross-multiplication.
RuleRunway(i) ==
    LET cash == df.rows[i][CASH]
        burn == df.rows[i][BURN]
    IN  IF ~IsNum(burn) THEN {}
        ELSE IF burn.n <= 0 THEN {ZeroBurn}
        ELSE IF ~IsNum(cash) THEN {}
        ELSE IF cash.n * burn.d < burn.n * cash.d THEN {Critical}
        ELSE IF cash.n * burn.d > LongRunwayMonths * burn.n * cash.d
             THEN {LongRunway}
        ELSE {}

\* The growth warning the rules give row i of df.
RuleGrowth(i) ==
    LET growth == df.rows[i][GROWTH]
    IN  IF IsNum(growth) /\ 2 * growth.n < 0 - growth.d
        THEN {NegativeGrowth}
        ELSE {}

\* The pairs <<row, message>> the rules give, and how many of them come
\* before the pair <<i, m>> in record order, runway before growth.
RulePairs ==
    {p \in (1..Len(df.rows)) \X (RunwayMessages \cup {NegativeGrowth}) :
        p[2] \in RuleRunway(p[1]) \cup RuleGrowth(p[1])}

RuleBefore(i, m) ==
    Cardinality({p \in RulePairs :
                    \/ p[1] < i
                    \/ p[1] = i /\ p[2] \in RunwayMessages
                                /\ m = NegativeGrowth})

\* C1: the list check_data_quality returns is the first min(4, n) elements
\* of the full warning sequence of n warnings, which visits the records in
\* order and takes for each its runway warning, then its growth warning.
C1_FirstFourOfFullSequence ==
    checked = "ok" =>
        /\ Len(warnings) = Min(4, Cardinality(RulePairs))
        /\ \A p \in RulePairs :
              RuleBefore(p[1], p[2]) < 4 =>
                 warnings[RuleBefore(p[1], p[2]) + 1] =
                     [name |-> df.rows[p[1]][NAME], message |-> p[2]]

C1_MoreThanFourCut ==
    /\ checked = "ok"
    /\ Cardinality(RulePairs) > 4
    /\ Len(warnings) = 4
    /\ Len(emitted) > 4

\* The messages the loop appended in the iteration of row i.
EmittedFor(i, messages) ==
    {k \in 1..Len(emitted) :
        emitted[k].row = i /\ emitted[k].warning.message \in messages}

\* C2: for a record with numeric cash and burn the loop appends at most one
\* runway warning: CRITICAL iff burn > 0 and cash / burn < 1, zero-burn iff
\* burn <= 0, long-runway iff burn > 0 and cash / burn > 120; a ratio in
\* [1, 120] appends none.
C2_RunwayWarningRules ==
    checked = "ok" =>
        \A i \in 1..Len(df.rows) :
            LET cash == df.rows[i][CASH]
                burn == df.rows[i][BURN]
                has(m) == EmittedFor(i, {m}) # {}
            IN  IsNum(cash) /\ IsNum(burn) =>
                  /\ Cardinality(EmittedFor(i, RunwayMessages)) <= 1
                  /\ has(Critical) <=>
                        burn.n > 0 /\ cash.n * burn.d < burn.n * cash.d
                  /\ has(ZeroBurn) <=> burn.n <= 0
                  /\ has(LongRunway) <=>
                        /\ burn.n > 0
                        /\ cash.n * burn.d > 120 * burn.n * cash.d
                  /\ ( /\ burn.n > 0
                       /\ cash.n * burn.d >= burn.n * cash.d
                       /\ cash.n * burn.d <= 120 * burn.n * cash.d )
                     => EmittedFor(i, RunwayMessages) = {}

C2_RatioOf120Unwarned ==
    /\ checked = "ok"
    /\ \E i \in 1..Len(df.rows) :
          /\ IsNum(df.rows[i][CASH]) /\ IsNum(df.rows[i][BURN])
          /\ df.rows[i][BURN].n > 0
          /\ df.rows[i][CASH].n * df.rows[i][BURN].d =
                120 * df.rows[i][BURN].n * df.rows[i][CASH].d
          /\ EmittedFor(i, RunwayMessages) = {}
    /\ \E i \in 1..Len(df.rows) :
          /\ IsNum(df.rows[i][CASH]) /\ IsNum(df.rows[i][BURN])
          /\ EmittedFor(i, {Critical}) # {}

\* C3: the loop appends the negative-growth warning for a record iff its
\* revenue_growth is present and below -0.5, whatever runway warning the
\* record has, so one record can contribute two warnings.
C3_GrowthWarningRule ==
    checked = "ok" =>
        \A i \in 1..Len(df.rows) :
            LET growth == df.rows[i][GROWTH]
            IN  /\ Cardinality(EmittedFor(i, {NegativeGrowth})) <= 1
                /\ EmittedFor(i, {NegativeGrowth}) # {} <=>
                      IsNum(growth) /\ 2 * growth.n < 0 - growth.d

C3_TwoWarningsForOneRecord ==
    /\ checked = "ok"
    /\ \E i \in 1..Len(df.rows) :
          /\ EmittedFor(i, RunwayMessages) # {}
          /\ EmittedFor(i, {NegativeGrowth}) # {}

\* The records with monthly_burn > 0, and those of them that have a cash value.
PositiveBurnRows ==
    {i \in 1..Len(df.rows) :
        IsNum(df.rows[i][BURN]) /\ df.rows[i][BURN].n > 0}

ContributingRows == {i \in PositiveBurnRows : IsNum(df.rows[i][CASH])}

\* The mean of cash / monthly_burn over the rows in S.
RECURSIVE RatioSum(_)
RatioSum(S) ==
    IF S = {} THEN Zero
    ELSE LET i == CHOOSE j \in S : TRUE
         IN  Add(Div(df.rows[i][CASH], df.rows[i][BURN]), RatioSum(S \ {i}))

RatioMean(S) == Div(RatioSum(S), Num(Cardinality(S), 1))

\* C4 as stated: avg_runway is the mean of cash / monthly_burn over exactly
\* the records with monthly_burn > 0, every one of them entering the mean,
\* and None when there is no such record.
C4_MeanOverExactlyPositiveBurn ==
    analyzed = "ok" =>
        IF PositiveBurnRows = {}
        THEN results.avg_runway = None
        ELSE /\ ContributingRows = PositiveBurnRows
             /\ results.avg_runway = RatioMean(PositiveBurnRows)

\* C4 amended: avg_runway is None iff no record has monthly_burn > 0;
\* otherwise it is the mean of cash / monthly_burn over the records with
\* monthly_burn > 0 that have a cash value, and NaN when none of them has.
C4_MeanOverPositiveBurnWithCash ==
    analyzed = "ok" =>
        /\ results.avg_runway = None <=> PositiveBurnRows = {}
        /\ PositiveBurnRows # {} /\ ContributingRows = {}
              => results.avg_runway = NaN
        /\ ContributingRows # {}
              => results.avg_runway = RatioMean(ContributingRows)

C4_PositiveBurnWithoutCashSkipped ==
    /\ analyzed = "ok"
    /\ ContributingRows # {}
    /\ PositiveBurnRows \ ContributingRows # {}
    /\ results.avg_runway = RatioMean(ContributingRows)

\* C5: runway_based_on is the number of records that contributed to
\* avg_runway exactly when that number is below startup_count, and None when
\* every record contributed, also when a record has monthly_burn > 0 but no
\* cash.
C5_CountsContributingRecords ==
    analyzed = "ok" =>
        results.runway_based_on =
            IF Cardinality(ContributingRows) < results.startup_count
            THEN Num(Cardinality(ContributingRows), 1)
            ELSE None

\* Row a ranks ahead of row b by revenue_growth: the larger number first, the
\* earlier row among equal numbers, a number ahead of a missing value.
RanksAhead(a, b) ==
    LET ga == df.rows[a][GROWTH]
        gb == df.rows[b][GROWTH]
    IN  IF IsNum(ga) /\ IsNum(gb)
        THEN \/ ga.n * gb.d > gb.n * ga.d
             \/ ga.n * gb.d = gb.n * ga.d /\ a < b
        ELSE IsNum(ga) \/ ~IsNum(gb)

\* C6: top_growers has min(3, number of records) entries, in descending
\* order of revenue_growth; records of equal growth keep their order in the
\* RecordSet, and of equals across the cut the earlier ones are listed.
C6_TopGrowersStableDescending ==
    analyzed = "ok" /\ GROWTH \in df.columns =>
        LET top == results.top_growers
            n == Len(df.rows)
        IN  /\ Len(top) = Min(3, n)
            /\ \E f \in [1..Len(top) -> 1..n] :
                  /\ \A j \in 1..Len(top) :
                        top[j] = [name |-> df.rows[f[j]][NAME],
                                  revenue_growth |-> df.rows[f[j]][GROWTH]]
                  /\ \A j, k \in 1..Len(top) :
                        j < k => f[j] # f[k] /\ RanksAhead(f[j], f[k])
                  /\ \A r \in 1..n :
                        (\A j \in 1..Len(top) : f[j] # r) =>
                            \A j \in 1..Len(top) : RanksAhead(f[j], r)

C6_EqualsAcrossTheCut ==
    /\ analyzed = "ok"
    /\ Len(df.rows) > 3
    /\ Len(results.top_growers) = 3
    /\ results.top_growers[1].revenue_growth
          # results.top_growers[2].revenue_growth
    /\ results.top_growers[2].revenue_growth
          = results.top_growers[3].revenue_growth
    /\ \E r \in 1..Len(df.rows) :
          /\ df.rows[r][GROWTH] = results.top_growers[3].revenue_growth
          /\ \A j \in 1..3 : results.top_growers[j].name # df.rows[r][NAME]

\* C7: analyze_data and check_data_quality return on every dataset that
\* extraction returns, neither of them raising.
C7_NeverFails ==
    /\ analyzed \in {"no", "ok"}
    /\ checked \in {"no", "ok"}

\* The text form of value without commas and currency or percent glyphs,
\* trimmed.
Remainder == Strip(RemoveChars(PyStr(value), {",", "€", "$", "%"}))

\* The remainder writes a number as sign, integer digits up to position p,
\* and fraction digits after a point; and number is the number it writes.
WritesNumber(t, sign, p, number) ==
    LET whole == SubSeq(t, sign + 1, p)
        fraction == SubSeq(t, p + 2, Len(t))
    IN  /\ sign = 1 => t[1] = "-"
        /\ \A i \in 1..Len(whole) : whole[i] \in Digits
        /\ \A i \in 1..Len(fraction) : fraction[i] \in Digits
        /\ p < Len(t) => t[p + 1] = "."
        /\ Len(whole) + Len(fraction) > 0
        /\ IsNum(number)
        /\ number.n * Pow10(Len(fraction)) =
              (IF sign = 1 THEN -1 ELSE 1) * number.d
              * (DigitsVal(whole) * Pow10(Len(fraction)) + DigitsVal(fraction))

Writes(t, number) ==
    \E sign \in 0..1 : \E p \in sign..Len(t) :
        sign <= Len(t) /\ WritesNumber(t, sign, p, number)

\* C8: _parse_number returns on every input, a number or None: a numeric
\* input with the same value; for any other input the number its remainder
\* writes, and None when the remainder writes no number.  In particular
\* "$1,000,000.00" gives 1000000.0, "15%" gives 15.0, "abc" gives None and
\* "€1.000.000,00" gives None.
C8_TotalNumberOrNone ==
    called # "no" =>
        /\ called = "ok"
        /\ parsed.k \in {"num", "nan", "none"}
        /\ value.k \in {"num", "nan", "int"} => parsed = value
        /\ value.k \in {"str", "none"} =>
              LET t == Remainder
                  written == Writes(t, parsed)
                  valid ==
                      \E sign \in 0..1 : \E p \in sign..Len(t) :
                          /\ sign <= Len(t)
                          /\ \A i \in (sign + 1)..Len(t) :
                                t[i] \in Digits \/ (i = p + 1 /\ t[i] = ".")
                          /\ sign = 1 => t[1] = "-"
                          /\ \E i \in (sign + 1)..Len(t) : t[i] \in Digits
              IN  IF valid THEN written ELSE parsed = None
        /\ value = Str(<<"$", "1", ",", "0", "0", "0", ",", "0", "0", "0",
                         ".", "0", "0">>) => parsed = Num(1000000, 1)
        /\ value = Str(<<"1", "5", "%">>) => parsed = Num(15, 1)
        /\ value = Str(<<"a", "b", "c">>) => parsed = None
        /\ value = Str(<<"€", "1", ".", "0", "0", "0", ".", "0", "0", "0",
                         ",", "0", "0">>) => parsed = None

Carried(c) == \E i \in 1..Len(records) : c \in DOMAIN records[i]

C13_NamesNonEmptyAfterTrimming ==
    doc.ext = "pdf" /\ loaded = "ok" =>
        \A i \in 1..Len(records) :
            /\ NAME \in DOMAIN records[i]
            /\ records[i][NAME].k = "str"
            /\ Strip(records[i][NAME].s) # <<>>
            /\ df.rows[i][NAME] = records[i][NAME]

\* C15: parse_pdf parses text only if no row of any table of any page of the
\* document was accepted, so the records returned never hold both records
\* of tables and records of text.
C15_TextOnlyWithoutAnyTableRow ==
    doc.ext = "pdf" /\ doc.readable /\ loaded # "no" =>
        /\ textPages # {} =>
              \A j \in 1..Len(origins) : origins[j].path # "table"
        /\ ~ \E j, k \in 1..Len(origins) :
                origins[j].path = "table" /\ origins[k].path = "text"

\* The origins of page k on a path.
OriginsOf(k, path) ==
    {j \in 1..Len(origins) : origins[j].page = k /\ origins[j].path = path}

CutAtFirstStop(text, field, v) ==
    /\ \A i \in 1..Len(v) : v[i] \notin ValueStops
    /\ \E a \in 1..(Len(text) + 1) :
          LET b == a + Len(v) - 1
          IN  /\ b <= Len(text)
              /\ SubSeq(text, a, b) = v
              /\ \E e \in (b + 1)..(Len(text) + 1) :
                    /\ \A i \in (b + 1)..(e - 1) : text[i] \in Whitespace
                    /\ e = Len(text) + 1 \/ text[e] \in ValueStops
              /\ \E p \in 1..a, c \in 1..(a - 1) :
                    /\ OccursAtIgnoringCase(field, text, p)
                    /\ p + Len(field) <= c
                    /\ text[c] \in {":", "-"}
                    /\ \A i \in (p + Len(field))..(c - 1) \cup (c + 1)..(a - 1) :
                          text[i] \in Whitespace

\* A cell of some row of the tables.
CellOf(tables, v) ==
    \E t \in 1..Len(tables) : \E r \in 1..Len(tables[t]) :
        \E c \in 1..Len(tables[t][r]) : tables[t][r][c] = v

\* What line 166 makes of the value v of a record: the number _parse_number
\* returns, an absent value when it returns None.
Normalized(made, v) ==
    IF ParseNumber(v) = None THEN made \in {None, NaN}
    ELSE made = ParseNumber(v)

\* C19: on the text path the value of a numeric field is the text after the
\* field up to the first comma, semicolon or newline, and the number is
\* parsed from that; "cash: 1,000,000" gives 1, and the cell "1,000,000" of
\* a table, taken whole, gives 1000000.
C19_TextValueCutBeforeNormalization ==
    doc.ext = "pdf" /\ loaded = "ok" =>
        \A j \in 1..Len(records) :
            \A f \in NumericColumns \cap DOMAIN records[j] :
                LET page == doc.pages[origins[j].page]
                    v == records[j][f]
                IN  /\ origins[j].path = "text" =>
                          /\ v.k = "str"
                          /\ CutAtFirstStop(page.text, f, v.s)
                          /\ Normalized(df.rows[j][f], v)
                          /\ page.text = ThousandsText /\ f = CASH =>
                                df.rows[j][f] = Num(1, 1)
                    /\ origins[j].path = "table" =>
                          /\ CellOf(page.tables, v)
                          /\ NotNa(v) => Normalized(df.rows[j][f], v)
                          /\ v = Str(ThousandsCell) =>
                                df.rows[j][f] = Num(1000000, 1)

C19_ThousandsInTextAndTable ==
    /\ doc.ext = "pdf"
    /\ loaded = "ok"
    /\ \E j, k \in 1..Len(records) :
          /\ origins[j].path = "text"
          /\ doc.pages[origins[j].page].text = ThousandsText
          /\ df.rows[j][CASH] = Num(1, 1)
          /\ origins[k].path = "table"
          /\ records[k][CASH] = Str(ThousandsCell)
          /\ df.rows[k][CASH] = Num(1000000, 1)

\* Whether the row has a cell equal to "name" and a cell holding "cash",
\* "burn" or "growth", ignoring case.
NamedAmongCells(row) ==
    /\ \E j \in 1..Len(row) : RowLower(row)[j] = NAME
    /\ \E j \in 1..Len(row) :
          \E x \in HeaderTokens : Contains(RowLower(row)[j], x)

\* The first such row of the table, 0 when it has none.
FirstNamedAmongCells(table) ==
    LET hs == {i \in 1..Len(table) : NamedAmongCells(table[i])}
    IN  IF hs = {} THEN 0 ELSE CHOOSE i \in hs : \A j \in hs : i <= j

\* C16: the records of each table are those of the rows after its first row
\* that has a cell equal to "name" and "cash", "burn" or "growth" among its
\* cells, every one of those rows taken as a data row; a table without such
\* a row gives no record.
C16_HeaderHasTokenAmongCells ==
    doc.ext = "pdf" /\ doc.readable /\ loaded # "no" =>
        \A k \in 1..Len(doc.pages) :
            \A t \in 1..Len(doc.pages[k].tables) :
                LET table == doc.pages[k].tables[t]
                    h == FirstNamedAmongCells(table)
                IN  perPage[k].each[t] =
                        IF h = 0 THEN <<>>
                        ELSE DataRecords(RowLower(table[h]), table, h + 1)

\* Other spellings of a header cell h: in capitals and in small letters,
UpperChar(c) ==
    IF \E i \in 1..Len(LowerCase) : LowerCase[i] = c
    THEN UpperCase[CHOOSE i \in 1..Len(LowerCase) : LowerCase[i] = c]
    ELSE c

Recased(h) == {Lower(h), [i \in 1..Len(h) |-> UpperChar(h[i])]}

\* with whitespace around it,
Padded(h) == {<<" ">> \o h, h \o <<" ">>, <<"\n", " ">> \o h \o <<" ", " ">>}

\* with a parenthesized annotation after it,
Annotated(h) ==
    {h \o <<" ", "(", "€", ")">>, h \o <<"(", "b", ")">>,
     h \o <<" ", " ", "(", ")">>}

\* and with the separator at position i written as c.
Separators == {" ", "-", "_"}

Respelt(h, i, c) == [h EXCEPT ![i] = c]

SeparatorsRespelt(h) ==
    {Respelt(h, i, c) : i \in {j \in 1..Len(h) : h[j] \in Separators},
                        c \in Separators}

\* The positions of h between two characters that are not whitespace.
Interior(h) ==
    {i \in 1..Len(h) : /\ \E j \in 1..(i - 1) : h[j] \notin Whitespace
                       /\ \E j \in (i + 1)..Len(h) : h[j] \notin Whitespace}

\* What the steps of the normalization leave in a key: no capital, no
\* space, no hyphen, no whitespace at either end, and no "(" with a ")"
\* after it.
IsKey(k) ==
    /\ \A i \in 1..Len(k) : k[i] \notin {" ", "-"} /\ LowerChar(k[i]) = k[i]
    /\ k # <<>> => k[1] \notin Whitespace /\ k[Len(k)] \notin Whitespace
    /\ \A i, j \in 1..Len(k) : i < j => ~(k[i] = "(" /\ k[j] = ")")

SampleKeys == <<NAME, CASH, BURN, GROWTH>>

BurnSpellings ==
    {SampleHeader[3], ShortHeader[3], BURN}

\* C17 as stated: the key of a key is that key, and every cell that differs
\* from the header cell only in letter case, surrounding whitespace, a
\* parenthesized annotation, or space versus hyphen versus underscore has
\* the key of the header cell; the sample headers give the required keys.
C17_SpellingsShareKey ==
    /\ passes >= 1 =>
          /\ \A v \in Recased(headerCell) \cup Padded(headerCell)
                    \cup Annotated(headerCell)
                    \cup SeparatorsRespelt(headerCell) :
                NormalizeHeader(v) = key
          /\ \A j \in 1..Len(SampleHeader) :
                headerCell = SampleHeader[j] => key = SampleKeys[j]
          /\ headerCell \in BurnSpellings => key = BURN
    /\ passes = 2 => rekey = key

\* C17, amended: the key holds what the steps of the normalization leave,
\* and the key of a key is that key; a cell in other letter case or with
\* whitespace around it has the same key, and so has a cell with hyphen
\* for underscore; an annotation after a cell without "(" does not change
\* the key, and neither does a space, hyphen or underscore for another
\* between two characters that are not whitespace, in a cell without
\* parentheses.  The sample headers give the four required keys.
C17_KeyCanonical ==
    /\ passes >= 1 =>
          /\ IsKey(key)
          /\ \A v \in Recased(headerCell) \cup Padded(headerCell) :
                NormalizeHeader(v) = key
          /\ \A i \in 1..Len(headerCell) :
                headerCell[i] \in {"-", "_"} =>
                    /\ NormalizeHeader(Respelt(headerCell, i, "-")) = key
                    /\ NormalizeHeader(Respelt(headerCell, i, "_")) = key
          /\ (\A i \in 1..Len(headerCell) : headerCell[i] # "(") =>
                \A v \in Annotated(headerCell) : NormalizeHeader(v) = key
          /\ (\A i \in 1..Len(headerCell) : headerCell[i] \notin {"(", ")"}) =>
                \A i \in Interior(headerCell) :
                    headerCell[i] \in Separators =>
                        \A c \in Separators :
                            NormalizeHeader(Respelt(headerCell, i, c)) = key
          /\ \A j \in 1..Len(SampleHeader) :
                headerCell = SampleHeader[j] => key = SampleKeys[j]
          /\ headerCell \in BurnSpellings => key = BURN
    /\ passes = 2 => rekey = key

C17_BurnCellNormalizedTwice ==
    /\ headerCell = SampleHeader[3]
    /\ passes = 2
    /\ key = BURN
    /\ rekey = BURN

\* Whether load_data returns on files[i].
Loads(i) == loads[i].status = "ok"

\* The tally of the batch loop: the files attempted are the first ones of
\* the list, each once and in order, successful counts those that loaded,
\* failed the others, one DataFrame is collected per loaded file, and the
\* loop is left only when every file has been attempted.
Tally ==
    Len(files) >= 2 =>
        /\ attempted = [i \in 1..Len(attempted) |-> i]
        /\ Len(attempted) <= Len(files)
        /\ successful = Cardinality({i \in 1..Len(attempted) : Loads(i)})
        /\ failed = Cardinality({i \in 1..Len(attempted) : ~Loads(i)})
        /\ successful + failed = Len(attempted)
        /\ Len(all_dfs) = successful
        /\ pc # "loop" => Len(attempted) = Len(files)

AllAttempted ==
    Len(files) >= 2 =>
        /\ pc # "loop"
        /\ attempted = [i \in 1..Len(files) |-> i]
        /\ successful + failed = Len(files)

\* C11: in a batch every file is attempted once, in the given order,
\* whatever became of the files before it; after each iteration successful
\* + failed is the number of files attempted, in the end the number of
\* files, and as many DataFrames are collected as files loaded.
C11_EveryFileAttemptedOnce == []Tally /\ <>AllAttempted

C11_LoadedAfterExitAndException ==
    /\ Len(files) >= 2
    /\ pc # "loop"
    /\ \E i, j, k \in 1..Len(files) :
          /\ i < k /\ j < k
          /\ loads[i].status \in Raised
          /\ loads[j].status \notin Raised \cup {"ok"}
          /\ Loads(k)
    /\ failed = 2
    /\ successful = 1
    /\ Len(all_dfs) = 1

\* The DataFrames of the files that load, in input order.
RECURSIVE LoadedFrom(_)
LoadedFrom(i) ==
    IF i > Len(files) THEN <<>>
    ELSE IF Loads(i) THEN <<loads[i].df>> \o LoadedFrom(i + 1)
    ELSE LoadedFrom(i + 1)

\* C12: a run on one file fails, with no metrics and no warnings computed,
\* when the file does not load; a run on several files fails iff none of
\* them loads, and otherwise computes metrics and warnings once each, after
\* every file was attempted, over the concatenation in input order of the
\* DataFrames loaded.
C12_FailsIffEveryDocumentFails ==
    /\ Len(files) = 1 /\ attempted # <<>> /\ ~Loads(1) =>
          pc = "failed" /\ metrics = <<>> /\ quality = <<>>
    /\ Len(files) >= 2 =>
          /\ metrics # <<>> \/ quality # <<>> =>
                /\ Len(attempted) = Len(files)
                /\ combined_df = PdConcat(LoadedFrom(1))
                /\ \A n \in 1..Len(metrics) : metrics[n].df = combined_df
                /\ \A n \in 1..Len(quality) : quality[n].df = combined_df
          /\ pc = "failed" => \A i \in 1..Len(files) : ~Loads(i)
          /\ pc = "done" => Len(metrics) = 1 /\ Len(quality) = 1
          /\ (\A i \in 1..Len(files) : ~Loads(i)) =>
                pc \in {"loop", "failed"} /\ metrics = <<>> /\ quality = <<>>

\* C14: the validation fails when a record of the answer lacks one of the
\* four keys, whatever the other records carry; when it passes, every
\* value of cash, monthly_burn and revenue_growth is a number or absent.
C14_EveryRecordCarriesAllKeys ==
    validated # "no" =>
        /\ (\E i \in 1..Len(data) : ~(Required \subseteq DOMAIN data[i])) =>
              validated # "ok"
        /\ validated = "ok" =>
              \A i \in 1..Len(ai_df.rows) : \A c \in NumericColumns :
                  ai_df.rows[i][c].k \in {"num", "nan"}

====
